---- MODULE Spec2Model ----
(***************************************************************************)
(* Model of scripts/dispatch_bilibili_dynamic.py and of the paginating     *)
(* generators of gizmo/bilibili/client.py it walks.                        *)
(*                                                                         *)
(* The three Updators and the MemberUpdator are classes; the model drives  *)
(* one object per behaviour, named by under_test: either a MemberUpdator   *)
(* (as main() does) or one of the Updators called directly.  A caller may  *)
(* call update() again after it raised.  One update() is one step; the     *)
(* clock the walk reads (int(time.time())) is the variable now, which      *)
(* moves between steps.                                                    *)
(***************************************************************************)
EXTENDS Integers, Sequences, FiniteSets, TLC

\* ------------------------------------------------------------------ bounds
Now0 == 2000          \* clock reading of the first step (seconds)
MaxFeed == 3          \* longest sequence the remote returns for one feed
PageLen == 2          \* items the remote puts in one page
MaxThread == 2        \* longest reply thread under one comment

\* ------------------------------------------------------- program constants
Lookback == 1800      \* 30 * 60
SleepSeconds == 30    \* time.sleep(30)
AuthorMid == 1        \* the tracked member's id (config.member_id)
OtherMid == 2         \* some other member

\* --------------------------------------------------------------- helpers
None == [pytype |-> "NoneType"]

Reverse(s) == [i \in 1..Len(s) |-> s[Len(s) + 1 - i]]

Range(s) == {s[i] : i \in 1..Len(s)}

InjSeqs(S, n) ==
    UNION {{s \in [1..k -> S] : \A i, j \in 1..k : i # j => s[i] # s[j]} : k \in 0..n}

\* ------------------------------------------------- what the remote holds
\* models.Dynamic: id_str, modules.module_author.{mid,pub_ts}, modules.module_tag
\* (tag "none" is module_tag = None, "top" is the text of a pinned post).
Dynamic(id, ts, tag) ==
    [pytype |-> "Dynamic", id_str |-> id, mid |-> AuthorMid, pub_ts |-> ts, tag |-> tag]

Dynamics ==
    { Dynamic(1, Now0 - Lookback, "top"),
      Dynamic(2, Now0 - Lookback + 1, "top"),
      Dynamic(3, Now0 - 900, "other"),
      Dynamic(4, Now0, "none") }

\* models.Reply as the remote lists it under a post (oid is set by the request)
CommentStub(rpid, mid, ctime) == [rpid |-> rpid, mid |-> mid, ctime |-> ctime]

CommentStubs ==
    { CommentStub(1, AuthorMid, Now0 - Lookback),
      CommentStub(2, AuthorMid, Now0 - Lookback + 1),
      CommentStub(3, OtherMid, Now0 - 900),
      CommentStub(4, AuthorMid, Now0 - 900),
      CommentStub(5, AuthorMid, Now0 - 900) }

Reply(oid, root, rpid, mid, ctime) ==
    [pytype |-> "Reply", oid |-> oid, root |-> root, rpid |-> rpid, mid |-> mid, ctime |-> ctime]

\* the part of it listed while a MemberUpdator is driven: the two pinned posts
\* and a post without a tag, with a comment by the author and one by another
MemberDynamics == {d \in Dynamics : d.tag # "other"}
MemberCommentStubs == {c \in CommentStubs : c.rpid \in {3, 4}}

DynamicsOf(harness) == IF harness = "MemberUpdator" THEN MemberDynamics ELSE Dynamics
CommentStubsOf(harness) ==
    IF harness = "MemberUpdator" THEN MemberCommentStubs ELSE CommentStubs

\* a listing after one change on the remote: an item is put at its head
\* (published, or pinned), or an item is taken out of it (deleted, unpinned)
Without(items, i) == [k \in 1..(Len(items) - 1) |-> IF k < i THEN items[k] ELSE items[k + 1]]

Changed(items, universe) ==
    {<<x>> \o items : x \in {y \in universe : Len(items) < MaxFeed /\ y \notin Range(items)}}
        \cup {Without(items, i) : i \in 1..Len(items)}

\* the reply thread the remote holds under one comment (the mids of the
\* repliers, in page order): k replies, the one at authorAt by the post's author
Thread(k, authorAt) == [j \in 1..k |-> IF j = authorAt THEN AuthorMid ELSE OtherMid]

RemoteThread(rpid) ==
    CASE rpid = 1 -> Thread(1, 1)
      [] rpid = 2 -> Thread(1, 1)
      [] rpid = 3 -> Thread(MaxThread, MaxThread)
      [] OTHER -> <<>>

ClockValues == {Now0, Now0 + SleepSeconds}

Harnesses == {"MemberUpdator", "DynamicUpdator", "DynamicAuthorCommentUpdator",
              "CommentAuthorReplyUpdator"}

VARIABLES
    now,                \* int(time.time())
    feed,               \* what member_dynamics(mid) lists now, in page order
    comments,           \* what dynamic_replies(dynamic) lists now, in page order
    under_test,         \* the class the caller drives in this behaviour
    pc,                 \* MemberUpdator.update(): the statement to run next
    latest_dynamic,     \* DynamicUpdator._latest_dynamic
    top_dynamic,        \* MemberUpdator._top_dynamic
    dac,                \* MemberUpdator._dynamic_author_comment (object or None)
    car,                \* MemberUpdator._comment_author_reply (object or None)
    delivered_dynamics, \* history: id_str of every Dynamic handled so far
    delivered_comments, \* history: rpid of every comment handled for the current pin
    dropped,            \* history: ids collected by an update() whose replay raised
                        \*          before handling them
    feeds_sorted,       \* history: every feed the Updator walked was newest-first
                        \* (dropped, feeds_sorted and delivered_dynamics are kept
                        \*  for the Updator that is driven directly,
                        \*  delivered_comments for the MemberUpdator)
    pin_changed,        \* history: the pinned post MemberUpdator.update() resolved
                        \*          last is not the one it held before
    op,                 \* the step just taken
    raised,             \* the step just taken ended in an exception
    fetch_failed,       \* a remote request failed during the step just taken
    collected,          \* new_dynamics / new_comments / new_comment_replies of that step
    handled,            \* the data handler.handle() returned from in that step
    rebuilt,            \* that step constructed the two dependent Updators
    taken,              \* items the walk of that update() took from its generator
    requests,           \* page requests that generator issued for the walk
    run                 \* MemberUpdator.update() run loop iteration by loop
                        \* iteration: the loop it is in, its generators, its
                        \* new_... list

vars == <<now, feed, comments, under_test, pc, latest_dynamic, top_dynamic, dac, car,
          delivered_dynamics, delivered_comments, dropped, feeds_sorted, pin_changed,
          op, raised, fetch_failed, collected, handled, rebuilt, taken, requests, run>>

env == <<now, feed, comments>>
hist == <<delivered_dynamics, delivered_comments, dropped, feeds_sorted, pin_changed>>
seen == <<op, raised, fetch_failed, collected, handled, rebuilt, taken, requests>>

\* ------------------------------------------------------------ models.py
DynamicEventUnixTime(dynamic) == dynamic.pub_ts
ReplyEventUnixTime(reply) == reply.ctime
DynamicMid(dynamic) == dynamic.mid

\* Dynamic.is_top(): module_tag.text == "置顶"; AttributeError when module_tag is None
IsTopRaises(dynamic) == dynamic.tag = "none"
is_top(dynamic) == dynamic.tag = "top"

\* ------------------------------------------------------------ client.py
\* The generators request a page when the consumer asks for the first item of
\* it.  failReq is the number of the request that fails in this call (0: none).
PageOf(i) == ((i - 1) \div PageLen) + 1
StartsPage(i) == (i - 1) % PageLen = 0

\* ApiClient.member_dynamics: what asking for item i gives.  The last page
\* carries has_more = False, so no request follows it.
member_dynamics(items, i, failReq) ==
    IF i <= Len(items)
    THEN IF StartsPage(i) /\ failReq = PageOf(i) THEN "error" ELSE "item"
    ELSE IF i = 1 /\ failReq = 1 THEN "error" ELSE "end"

PagesOf(n) == (n + PageLen - 1) \div PageLen

\* ApiClient.dynamic_replies: pages are requested until one comes back empty.
\* dynamic.basic raises AttributeError when dynamic is None.
dynamic_replies(dynamic, items, i, failReq) ==
    IF dynamic = None THEN "error"
    ELSE IF i <= Len(items)
    THEN IF StartsPage(i) /\ failReq = PageOf(i) THEN "error" ELSE "item"
    ELSE IF failReq = PagesOf(Len(items)) + 1 THEN "error" ELSE "end"

\* mutant: the generator fetches every page when it is asked for the first item
member_dynamics_requests_Eager(items, i) ==
    IF i = 1 THEN (IF Len(items) = 0 THEN 1 ELSE PagesOf(Len(items))) ELSE 0

\* requests ApiClient.member_dynamics issues when the consumer asks for item
\* i: one when the item opens a page (lines 82-89), none for an item of the
\* page in hand, none after the last page (has_more is False)
member_dynamics_requests(items, i) ==
    IF i <= Len(items) THEN (IF StartsPage(i) THEN 1 ELSE 0)
    ELSE IF i = 1 THEN 1 ELSE 0

\* requests ApiClient.dynamic_replies issues when the consumer asks for item
\* i: one when the item opens a page, and one past the last item (the request
\* that comes back empty, lines 108-109)
dynamic_replies_requests(items, i) ==
    IF i <= Len(items) THEN (IF StartsPage(i) THEN 1 ELSE 0) ELSE 1

\* requests issued by the time the consumer has asked for items 1..asked
RECURSIVE RequestsUpTo(_, _, _)
RequestsUpTo(generator, items, asked) ==
    IF asked = 0 THEN 0
    ELSE RequestsUpTo(generator, items, asked - 1)
           + (IF generator = "member_dynamics" THEN member_dynamics_requests(items, asked)
              ELSE dynamic_replies_requests(items, asked))

\* the items the remote lists on pages 1..k, and those of page k alone
ItemsOnPages(items, k) == IF PageLen * k < Len(items) THEN PageLen * k ELSE Len(items)
PageItems(items, k) == SubSeq(items, PageLen * (k - 1) + 1, ItemsOnPages(items, k))

\* data.has_more of page k: the remote reports more while items are left
RemoteHasMore(items, k) == PageLen * k < Len(items)

\* mutant: the loop goes on whatever the page reports
member_dynamics_more_Always(has_more) == TRUE

\* ApiClient.member_dynamics, lines 82 and 91: while has_more
member_dynamics_more(has_more) == has_more

\* ApiClient.dynamic_replies, lines 108-109: return on an empty page
dynamic_replies_more(replies) == replies # <<>>

\* ApiClient.comment_replies, lines 123-133: return on a failed request or
\* an empty page
comment_replies_more(ok, replies) == ok /\ replies # <<>>

\* a generator object: pages requested, items of the page in hand that are
\* not yielded yet, and whether its loop goes round again
NewGenerator == [pn |-> 0, page |-> <<>>, more |-> TRUE]
NoGenerator == [pn |-> 0, page |-> <<>>, more |-> FALSE]

\* the Reply objects dynamic_replies(dynamic) yields for the listed stubs
CommentOf(dynamic, stub) ==
    Reply(dynamic.id_str, 0, stub.rpid, stub.mid, stub.ctime)

\* ApiClient.comment_replies: a failed request (code != 0, or data None) is
\* logged and ends the generator; the caller sees the replies of the pages
\* before it and no error.
comment_replies(comment, failReq) ==
    LET thread == RemoteThread(comment.rpid)
        all == [k \in 1..Len(thread) |->
                   Reply(comment.oid, comment.rpid, 100 * comment.rpid + k, thread[k],
                         comment.ctime)]
        failed == failReq \in 1..(PagesOf(Len(thread)) + 1)
    IN [failed |-> failed,
        replies |-> IF failed /\ (failReq - 1) * PageLen < Len(all)
                    THEN SubSeq(all, 1, (failReq - 1) * PageLen) ELSE all]

\* ------------------------------------------- dispatch_bilibili_dynamic.py
\* event_unix_time() of whatever the handler is given
EventUnixTime(data) ==
    IF data.pytype = "Dynamic" THEN DynamicEventUnixTime(data) ELSE ReplyEventUnixTime(data)

\* mutant: the cutoff lets an item of exactly 30 minutes through
TooOld_StrictlyOlder(eventTime) == now - eventTime > Lookback

\* lines 91, 125, 156: int(time.time()) - x.event_unix_time() >= 30 * 60
TooOld(eventTime) == now - eventTime >= Lookback

\* mutant: the mark is set to the last item collected
NewestCollected_Last(new) == new[Len(new)]

\* lines 98, 131: the item the mark is set to, new_dynamics[0]
NewestCollected(new) == new[1]

\* mutant: an item as old as the mark counts as new
_is_new_dynamic_OrEqual(latest, dynamic) ==
    IF latest = None THEN TRUE
    ELSE DynamicEventUnixTime(dynamic) >= DynamicEventUnixTime(latest)

\* DynamicUpdator._is_new_dynamic
_is_new_dynamic(latest, dynamic) ==
    IF latest = None THEN TRUE
    ELSE DynamicEventUnixTime(dynamic) > DynamicEventUnixTime(latest)

\* mutant: a comment as old as the mark counts as new
_is_new_comment_OrEqual(latest, comment) ==
    IF latest = None THEN TRUE
    ELSE ReplyEventUnixTime(comment) >= ReplyEventUnixTime(latest)

\* DynamicAuthorCommentUpdator._is_new_comment, CommentAuthorReplyUpdator._is_new_comment
_is_new_comment(latest, comment) ==
    IF latest = None THEN TRUE
    ELSE ReplyEventUnixTime(comment) > ReplyEventUnixTime(latest)

\* mutant: the mark is cleared by a walk that collected nothing
MarkAfter_Unguarded(mark, new) ==
    IF new # <<>> THEN NewestCollected(new) ELSE None

\* lines 97-98, 130-131, 162-163: the mark after the walk
MarkAfter(mark, new) ==
    IF new # <<>> THEN NewestCollected(new) ELSE mark

\* mutant: a comment by anyone is collected
IsByAuthor_Anyone(dynamic, item) == TRUE

\* lines 128, 160: comment.mid == self._dynamic.mid()
IsByAuthor(dynamic, item) == item.mid = DynamicMid(dynamic)

\* mutant: an item past the lookback is skipped and the walk goes on
RECURSIVE DynamicWalk_SkipsOld(_, _, _, _, _)
DynamicWalk_SkipsOld(items, i, acc, failReq, latest) ==
    LET nxt == member_dynamics(items, i, failReq)
        requested == RequestsUpTo("member_dynamics", items, i)
    IN
    IF nxt = "error"
    THEN [err |-> TRUE, new |-> acc, taken |-> i - 1, requests |-> requested]
    ELSE IF nxt = "end"
    THEN [err |-> FALSE, new |-> acc, taken |-> i - 1, requests |-> requested]
    ELSE DynamicWalk_SkipsOld(items, i + 1,
                     IF /\ ~TooOld(DynamicEventUnixTime(items[i]))
                        /\ _is_new_dynamic(latest, items[i])
                     THEN Append(acc, items[i]) ELSE acc,
                     failReq, latest)

\* the walk of DynamicUpdator.update (lines 89-96), from item i on
RECURSIVE DynamicWalk(_, _, _, _, _)
DynamicWalk(items, i, acc, failReq, latest) ==
    LET nxt == member_dynamics(items, i, failReq)
        requested == RequestsUpTo("member_dynamics", items, i)
    IN
    IF nxt = "error"
    THEN [err |-> TRUE, new |-> acc, taken |-> i - 1, requests |-> requested]
    ELSE IF nxt = "end"
    THEN [err |-> FALSE, new |-> acc, taken |-> i - 1, requests |-> requested]
    ELSE IF TooOld(DynamicEventUnixTime(items[i]))
         THEN [err |-> FALSE, new |-> acc, taken |-> i, requests |-> requested]
    ELSE DynamicWalk(items, i + 1,
                     IF _is_new_dynamic(latest, items[i]) THEN Append(acc, items[i]) ELSE acc,
                     failReq, latest)

\* the walk of DynamicAuthorCommentUpdator.update (lines 121-129)
RECURSIVE CommentWalk(_, _, _, _, _, _)
CommentWalk(dynamic, items, i, acc, failReq, latest) ==
    LET nxt == dynamic_replies(dynamic, items, i, failReq)
        requested == IF dynamic = None THEN 0 ELSE RequestsUpTo("dynamic_replies", items, i)
    IN
    IF nxt = "error"
    THEN [err |-> TRUE, new |-> acc, taken |-> i - 1, requests |-> requested]
    ELSE IF nxt = "end"
    THEN [err |-> FALSE, new |-> acc, taken |-> i - 1, requests |-> requested]
    ELSE LET comment == CommentOf(dynamic, items[i]) IN
         IF ~_is_new_comment(latest, comment)
         THEN [err |-> FALSE, new |-> acc, taken |-> i, requests |-> requested]
         ELSE IF TooOld(ReplyEventUnixTime(comment))
         THEN [err |-> FALSE, new |-> acc, taken |-> i, requests |-> requested]
         ELSE CommentWalk(dynamic, items, i + 1,
                          IF IsByAuthor(dynamic, comment) THEN Append(acc, comment) ELSE acc,
                          failReq, latest)

\* the (comment, reply) pairs lines 159-161 append for one comment
PairsOf(dynamic, comment, replies) ==
    LET keep == SelectSeq(replies, LAMBDA reply : IsByAuthor(dynamic, reply))
    IN [k \in 1..Len(keep) |-> [pytype |-> "tuple", comment |-> comment, reply |-> keep[k]]]

\* the walk of CommentAuthorReplyUpdator.update (lines 152-161); threadFail[i]
\* is the request for the replies to item i that fails (0: none)
RECURSIVE ReplyWalk(_, _, _, _, _, _, _, _)
ReplyWalk(dynamic, items, i, acc, failReq, latest, threadFail, swallowed) ==
    LET nxt == dynamic_replies(dynamic, items, i, failReq)
        requested == IF dynamic = None THEN 0 ELSE RequestsUpTo("dynamic_replies", items, i)
    IN
    IF nxt = "error"
    THEN [err |-> TRUE, new |-> acc, taken |-> i - 1, requests |-> requested,
          swallowed |-> swallowed]
    ELSE IF nxt = "end"
    THEN [err |-> FALSE, new |-> acc, taken |-> i - 1, requests |-> requested,
          swallowed |-> swallowed]
    ELSE LET comment == CommentOf(dynamic, items[i]) IN
         IF ~_is_new_comment(latest, comment)
         THEN [err |-> FALSE, new |-> acc, taken |-> i, requests |-> requested,
               swallowed |-> swallowed]
         ELSE IF TooOld(ReplyEventUnixTime(comment))
         THEN [err |-> FALSE, new |-> acc, taken |-> i, requests |-> requested,
               swallowed |-> swallowed]
         ELSE LET got == comment_replies(comment, threadFail[i]) IN
              ReplyWalk(dynamic, items, i + 1,
                        acc \o PairsOf(dynamic, comment, got.replies),
                        failReq, latest, threadFail,
                        swallowed \/ got.failed)

\* the comments of the collected pairs, new_comment_replies[k][0]
CommentsOfPairs(new) == [k \in 1..Len(new) |-> new[k].comment]

\* update() is not being run step by step
NotRunning == [stage |-> "off", outer |-> NoGenerator, inner |-> NoGenerator,
               new |-> <<>>, cur |-> None]

\* no walk was made
NoWalk == [taken |-> 0, requests |-> 0]

\* mutant: the items are handled in the order they were collected
Replay_WalkOrder(new, hfail) ==
    IF hfail \in 1..Len(new) THEN SubSeq(new, 1, hfail - 1) ELSE new

\* lines 99-100 / 132-133: handler.handle() on each item, oldest collected
\* first; hfail is the call that raises (0 or beyond the list: none)
Replay(new, hfail) ==
    LET order == Reverse(new) IN
    IF hfail \in 1..Len(order) THEN SubSeq(order, 1, hfail - 1) ELSE order

ReplayRaises(new, hfail) == hfail \in 1..Len(new)

\* the feed is in the order the FeedSource contract promises
IsNewestFirst(items) ==
    \A i \in 1..(Len(items) - 1) :
        DynamicEventUnixTime(items[i]) >= DynamicEventUnixTime(items[i + 1])

CommentsNewestFirst(items) ==
    \A i \in 1..(Len(items) - 1) : items[i].ctime >= items[i + 1].ctime

MaxReq == PagesOf(MaxFeed) + 1


\* constructors (lines 113-118 and 144-149): the mark starts as None
NewDynamicAuthorCommentUpdator(dynamic) ==
    [pytype |-> "DynamicAuthorCommentUpdator", dynamic |-> dynamic, latest_comment |-> None]
NewCommentAuthorReplyUpdator(dynamic) ==
    [pytype |-> "CommentAuthorReplyUpdator", dynamic |-> dynamic, latest_comment |-> None]

\* MemberUpdator._get_top_dynamic (lines 195-199), from item i on
RECURSIVE _get_top_dynamic(_, _, _)
_get_top_dynamic(items, i, failReq) ==
    LET nxt == member_dynamics(items, i, failReq) IN
    IF nxt = "error" THEN [err |-> "fetch", value |-> None]
    ELSE IF nxt = "end" THEN [err |-> "no", value |-> None]
    ELSE IF IsTopRaises(items[i]) THEN [err |-> "attribute", value |-> None]
    ELSE IF is_top(items[i]) THEN [err |-> "no", value |-> items[i]]
    ELSE _get_top_dynamic(items, i + 1, failReq)

\* mutant: the comparison never finds a difference
PyNotEqualStr_Never(obj, s) == FALSE

\* Python's != between an object and a str: objects of another type are
\* never equal to a str (pydantic's BaseModel.__eq__ returns NotImplemented)
PyNotEqualStr(obj, s) ==
    IF obj.pytype = "str" THEN obj.value # s ELSE TRUE

\* the two are the same pinned post (the same id_str), or both are None
SamePost(a, b) ==
    IF a = None \/ b = None THEN a = b ELSE a.id_str = b.id_str

\* what the step just taken did
Observe(o, r, ff, c, h, rb, w) ==
    /\ taken' = w.taken
    /\ requests' = w.requests
    /\ op' = o
    /\ raised' = r
    /\ fetch_failed' = ff
    /\ collected' = c
    /\ handled' = h
    /\ rebuilt' = rb

IdsOf(items) == {items[i].id_str : i \in 1..Len(items)}
RpidsOf(items) == {items[i].rpid : i \in 1..Len(items)}

\* ------------------------------------------------------------- the remote
\* the member posts, deletes, pins or unpins: the feed the next request sees changes
FeedChanges ==
    /\ under_test \in {"MemberUpdator", "DynamicUpdator"}
    /\ feed' \in Changed(feed, DynamicsOf(under_test))
    /\ Observe("remote", FALSE, FALSE, <<>>, <<>>, FALSE, NoWalk)
    /\ UNCHANGED <<now, comments, under_test, run, pc, latest_dynamic, top_dynamic, dac, car, hist>>

CommentsChange ==
    /\ under_test # "DynamicUpdator"
    /\ comments' \in Changed(comments, CommentStubsOf(under_test))
    /\ Observe("remote", FALSE, FALSE, <<>>, <<>>, FALSE, NoWalk)
    /\ UNCHANGED <<now, feed, under_test, run, pc, latest_dynamic, top_dynamic, dac, car, hist>>

\* time.sleep(30) in main, and the time the requests take
TimePasses ==
    /\ \E t \in ClockValues : t > now /\ now' = t
    /\ Observe("clock", FALSE, FALSE, <<>>, <<>>, FALSE, NoWalk)
    /\ UNCHANGED <<feed, comments, under_test, run, pc, latest_dynamic, top_dynamic, dac, car, hist>>

\* ------------------------------------------------------------- DynamicUpdator
\* DynamicUpdator.update (lines 88-100)
DynamicUpdate ==
    /\ \/ under_test = "DynamicUpdator"
       \/ under_test = "MemberUpdator" /\ pc = "dynamic"
    /\ \E failReq \in 0..MaxReq, hfail \in 0..MaxFeed :
         LET w == DynamicWalk(feed, 1, <<>>, failReq, latest_dynamic) IN
         IF w.err
         THEN /\ hfail = 0
              /\ Observe("DynamicUpdator.update", TRUE, TRUE, w.new, <<>>, FALSE, w)
              /\ UNCHANGED <<latest_dynamic, delivered_dynamics, dropped>>
         ELSE /\ latest_dynamic' = MarkAfter(latest_dynamic, w.new)
              /\ Observe("DynamicUpdator.update", ReplayRaises(w.new, hfail), FALSE,
                         w.new, Replay(w.new, hfail), FALSE, w)
              /\ IF under_test = "DynamicUpdator"
                 THEN /\ delivered_dynamics' =
                             delivered_dynamics \cup IdsOf(Replay(w.new, hfail))
                      /\ dropped' = dropped \cup (IdsOf(w.new) \ IdsOf(Replay(w.new, hfail)))
                 ELSE UNCHANGED <<delivered_dynamics, dropped>>
    /\ feeds_sorted' = IF under_test = "DynamicUpdator"
                       THEN feeds_sorted /\ IsNewestFirst(feed) ELSE feeds_sorted
    /\ pc' = IF under_test # "MemberUpdator" THEN pc
             ELSE IF raised' THEN "idle" ELSE "comment"
    /\ UNCHANGED <<env, under_test, run, top_dynamic, dac, car, delivered_comments, pin_changed>>

\* ------------------------------------------------ DynamicAuthorCommentUpdator
\* DynamicAuthorCommentUpdator.update (lines 120-133), called on the object dac;
\* None has no update(), the call raises AttributeError
DynamicAuthorCommentUpdate ==
    /\ \/ under_test = "DynamicAuthorCommentUpdator"
       \/ under_test = "MemberUpdator" /\ pc = "comment"
    /\ \E failReq \in 0..MaxReq, hfail \in 0..MaxFeed :
         IF dac = None
         THEN /\ failReq = 0 /\ hfail = 0
              /\ Observe("DynamicAuthorCommentUpdator.update", TRUE, FALSE, <<>>, <<>>, FALSE,
                         NoWalk)
              /\ UNCHANGED <<dac, delivered_comments, dropped>>
         ELSE LET w == CommentWalk(dac.dynamic, comments, 1, <<>>, failReq, dac.latest_comment) IN
              IF w.err
              THEN /\ hfail = 0
                   /\ Observe("DynamicAuthorCommentUpdator.update", TRUE, dac.dynamic # None,
                              w.new, <<>>, FALSE, w)
                   /\ UNCHANGED <<dac, delivered_comments, dropped>>
              ELSE /\ dac' = [dac EXCEPT !.latest_comment = MarkAfter(@, w.new)]
                   /\ Observe("DynamicAuthorCommentUpdator.update", ReplayRaises(w.new, hfail),
                              FALSE, w.new, Replay(w.new, hfail), FALSE, w)
                   /\ delivered_comments' =
                          IF under_test = "MemberUpdator"
                          THEN delivered_comments \cup RpidsOf(Replay(w.new, hfail))
                          ELSE delivered_comments
                   /\ dropped' = IF under_test = "DynamicAuthorCommentUpdator"
                                 THEN dropped \cup (RpidsOf(w.new) \ RpidsOf(Replay(w.new, hfail)))
                                 ELSE dropped
    /\ pc' = IF under_test # "MemberUpdator" THEN pc
             ELSE IF raised' THEN "idle" ELSE "reply"
    /\ feeds_sorted' = IF under_test = "DynamicAuthorCommentUpdator"
                       THEN feeds_sorted /\ CommentsNewestFirst(comments) ELSE feeds_sorted
    /\ UNCHANGED <<env, under_test, run, latest_dynamic, top_dynamic, car, delivered_dynamics,
                   pin_changed>>

\* -------------------------------------------------- CommentAuthorReplyUpdator
\* CommentAuthorReplyUpdator.update (lines 151-163), called on the object car.
\* The method ends after setting the mark: it has no handler.handle() call.
CommentAuthorReplyUpdate ==
    /\ \/ under_test = "CommentAuthorReplyUpdator"
       \/ under_test = "MemberUpdator" /\ pc = "reply"
    /\ \E failReq \in 0..MaxReq,
          tfailAt \in 0..Len(comments),
          tfailReq \in 1..(PagesOf(MaxThread) + 1) :
         IF car = None
         THEN /\ failReq = 0 /\ tfailAt = 0 /\ tfailReq = 1
              /\ Observe("CommentAuthorReplyUpdator.update", TRUE, FALSE, <<>>, <<>>, FALSE,
                         NoWalk)
              /\ UNCHANGED car
         ELSE LET threadFail == [i \in 1..Len(comments) |-> IF i = tfailAt THEN tfailReq ELSE 0]
                  w == ReplyWalk(car.dynamic, comments, 1, <<>>, failReq, car.latest_comment,
                                 threadFail, FALSE)
              IN
              /\ tfailAt = 0 => tfailReq = 1
              /\ IF w.err
                 THEN /\ Observe("CommentAuthorReplyUpdator.update", TRUE,
                                 car.dynamic # None, w.new, <<>>, FALSE, w)
                      /\ UNCHANGED car
                 ELSE /\ car' = [car EXCEPT !.latest_comment =
                                               MarkAfter(@, CommentsOfPairs(w.new))]
                      /\ Observe("CommentAuthorReplyUpdator.update", FALSE, w.swallowed,
                                 w.new, <<>>, FALSE, w)
    /\ pc' = IF under_test # "MemberUpdator" THEN pc ELSE "idle"
    /\ UNCHANGED <<env, under_test, run, latest_dynamic, top_dynamic, dac, hist>>

\* --------------------------------------------------------------- MemberUpdator
\* MemberUpdator.update, lines 202-210: resolve the pinned post, compare, rebind
MemberUpdateResolve ==
    /\ under_test = "MemberUpdator" /\ pc = "idle"
    /\ \E failReq \in 0..MaxReq :
         LET got == _get_top_dynamic(feed, 1, failReq) IN
         IF got.err # "no"
         THEN /\ Observe("MemberUpdator.update", TRUE, got.err = "fetch", <<>>, <<>>, FALSE, NoWalk)
              /\ pc' = "idle"
              /\ UNCHANGED <<top_dynamic, dac, car, delivered_comments, pin_changed>>
         ELSE IF top_dynamic = None
         THEN \* self._top_dynamic.id_str: AttributeError
              /\ failReq = 0
              /\ Observe("MemberUpdator.update", TRUE, FALSE, <<>>, <<>>, FALSE, NoWalk)
              /\ pc' = "idle"
              /\ UNCHANGED <<top_dynamic, dac, car, delivered_comments, pin_changed>>
         ELSE IF PyNotEqualStr(got.value, top_dynamic.id_str)
         THEN /\ top_dynamic' = got.value
              /\ dac' = NewDynamicAuthorCommentUpdator(got.value)
              /\ car' = NewCommentAuthorReplyUpdator(got.value)
              /\ pin_changed' = ~SamePost(got.value, top_dynamic)
              /\ delivered_comments' =
                     IF SamePost(got.value, top_dynamic) THEN delivered_comments ELSE {}
              /\ Observe("MemberUpdator.update", FALSE, FALSE, <<>>, <<>>, TRUE, NoWalk)
              /\ pc' = "dynamic"
         ELSE /\ Observe("MemberUpdator.update", FALSE, FALSE, <<>>, <<>>, FALSE, NoWalk)
              /\ pc' = "dynamic"
              /\ pin_changed' = ~SamePost(got.value, top_dynamic)
              /\ UNCHANGED <<top_dynamic, dac, car, delivered_comments>>
    /\ UNCHANGED <<env, under_test, run, latest_dynamic, delivered_dynamics, dropped, feeds_sorted>>

\* ------------------------------------------------------------------- Init
\* The state after construction.  MemberUpdator.__init__ (lines 184-193) runs
\* _get_top_dynamic() once and leaves the two dependent Updators None; an
\* Updator driven directly is bound to a pinned post.
Init ==
    /\ now = Now0
    /\ comments = <<>>
    /\ under_test \in Harnesses
    /\ pc = "idle"
    /\ latest_dynamic = None
    /\ IF under_test = "MemberUpdator"
       THEN /\ feed \in InjSeqs(MemberDynamics, MaxFeed)
            /\ _get_top_dynamic(feed, 1, 0).err = "no"
            /\ top_dynamic = _get_top_dynamic(feed, 1, 0).value
            /\ dac = None
            /\ car = None
       ELSE /\ feed = <<>>
            /\ top_dynamic = None
            /\ \E d \in Dynamics :
                 /\ is_top(d)
                 /\ dac = IF under_test = "DynamicAuthorCommentUpdator"
                          THEN NewDynamicAuthorCommentUpdator(d) ELSE None
                 /\ car = IF under_test = "CommentAuthorReplyUpdator"
                          THEN NewCommentAuthorReplyUpdator(d) ELSE None
    /\ delivered_dynamics = {}
    /\ delivered_comments = {}
    /\ dropped = {}
    /\ feeds_sorted = TRUE
    /\ pin_changed = FALSE
    /\ op = "init"
    /\ raised = FALSE
    /\ fetch_failed = FALSE
    /\ collected = <<>>
    /\ handled = <<>>
    /\ rebuilt = FALSE
    /\ taken = 0
    /\ requests = 0
    /\ run = NotRunning

Next ==
    \/ FeedChanges
    \/ CommentsChange
    \/ TimePasses
    \/ DynamicUpdate
    \/ DynamicAuthorCommentUpdate
    \/ CommentAuthorReplyUpdate
    \/ MemberUpdateResolve

Spec == Init /\ [][Next]_vars

\* ======================================================================
\* MemberUpdator.update() loop iteration by loop iteration
\* ======================================================================
\* One tick of main's loop, with the generators and the for-loops that
\* consume them run one request and one item at a time.  The remote holds
\* finite listings: it reports has_more = False with the last page of the feed
\* and returns an empty page of replies behind the last one.
PageCap == PagesOf(MaxFeed) + PagesOf(MaxThread) + 2

OuterStages == {"get_top", "dynamic", "comment", "reply"}

StartStage(stage) ==
    [stage |-> stage, outer |-> NewGenerator, inner |-> NoGenerator,
     new |-> <<>>, cur |-> None]

Ended(stage) ==
    [stage |-> stage, outer |-> NoGenerator, inner |-> NoGenerator,
     new |-> <<>>, cur |-> None]

pagingFrame == <<env, under_test, pc, hist, seen>>

\* the post the generator of the running loop was called with
BoundDynamic ==
    IF run.stage = "comment" THEN (IF dac = None THEN None ELSE dac.dynamic)
    ELSE IF car = None THEN None ELSE car.dynamic

\* the sequence the generator of the running loop pages through
OuterItems ==
    IF run.stage \in {"get_top", "dynamic"} THEN feed
    ELSE [i \in 1..Len(comments) |-> CommentOf(BoundDynamic, comments[i])]

\* the generator of the running for-loop requests its next page (client.py
\* lines 84-87, 103-107); a failed request raises out of update().  None has no
\* update() and no basic: lines 213, 214 and 96 raise AttributeError.
PagingRequest ==
    /\ run.stage \in OuterStages
    /\ run.outer.page = <<>> /\ run.outer.more
    /\ run.outer.pn < PageCap
    /\ \E ok \in BOOLEAN :
         LET k == run.outer.pn + 1 IN
         IF run.stage \in {"comment", "reply"} /\ BoundDynamic = None
         THEN ok /\ run' = Ended("raised")
         ELSE IF ~ok THEN run' = Ended("raised")
         ELSE LET got == PageItems(OuterItems, k) IN
              run' = [run EXCEPT !.outer =
                        [pn |-> k, page |-> got,
                         more |-> IF run.stage \in {"get_top", "dynamic"}
                                  THEN member_dynamics_more(RemoteHasMore(feed, k))
                                  ELSE dynamic_replies_more(got)]]
    /\ UNCHANGED <<latest_dynamic, top_dynamic, dac, car, pagingFrame>>

\* the code behind the running for-loop: lines 199 and 203-210 with the post
\* found (or None), lines 97-100, 130-133, 162-163
Finish(found) ==
    CASE run.stage = "get_top" ->
           IF top_dynamic = None
           THEN /\ run' = Ended("raised")
                /\ UNCHANGED <<latest_dynamic, top_dynamic, dac, car>>
           ELSE /\ IF PyNotEqualStr(found, top_dynamic.id_str)
                   THEN /\ top_dynamic' = found
                        /\ dac' = NewDynamicAuthorCommentUpdator(found)
                        /\ car' = NewCommentAuthorReplyUpdator(found)
                   ELSE UNCHANGED <<top_dynamic, dac, car>>
                /\ run' = StartStage("dynamic")
                /\ UNCHANGED latest_dynamic
      [] run.stage = "dynamic" ->
           /\ latest_dynamic' = MarkAfter(latest_dynamic, run.new)
           /\ \E hfail \in 0..1 :
                run' = IF ReplayRaises(run.new, hfail) THEN Ended("raised")
                       ELSE StartStage("comment")
           /\ UNCHANGED <<top_dynamic, dac, car>>
      [] run.stage = "comment" ->
           /\ dac' = [dac EXCEPT !.latest_comment = MarkAfter(@, run.new)]
           /\ \E hfail \in 0..1 :
                run' = IF ReplayRaises(run.new, hfail) THEN Ended("raised")
                       ELSE StartStage("reply")
           /\ UNCHANGED <<latest_dynamic, top_dynamic, car>>
      [] run.stage = "reply" ->
           /\ car' = [car EXCEPT !.latest_comment = MarkAfter(@, CommentsOfPairs(run.new))]
           /\ run' = Ended("done")
           /\ UNCHANGED <<latest_dynamic, top_dynamic, dac>>

\* the generator of the running for-loop is exhausted: the loop ends
PagingLoopEnds ==
    /\ run.stage \in OuterStages
    /\ run.outer.page = <<>> /\ ~run.outer.more
    /\ Finish(None)
    /\ UNCHANGED pagingFrame

\* _get_top_dynamic, lines 196-198, on the next item
PagingGetTopStep ==
    /\ run.stage = "get_top" /\ run.outer.page # <<>>
    /\ LET dynamic == Head(run.outer.page) IN
         IF IsTopRaises(dynamic)
         THEN /\ run' = Ended("raised")
              /\ UNCHANGED <<latest_dynamic, top_dynamic, dac, car>>
         ELSE IF is_top(dynamic) THEN Finish(dynamic)
         ELSE /\ run' = [run EXCEPT !.outer.page = Tail(@)]
              /\ UNCHANGED <<latest_dynamic, top_dynamic, dac, car>>
    /\ UNCHANGED pagingFrame

\* DynamicUpdator.update, lines 90-96, on the next item
PagingDynamicStep ==
    /\ run.stage = "dynamic" /\ run.outer.page # <<>>
    /\ LET dynamic == Head(run.outer.page) IN
         IF TooOld(DynamicEventUnixTime(dynamic)) THEN Finish(None)
         ELSE /\ run' = [run EXCEPT !.outer.page = Tail(@),
                                    !.new = IF _is_new_dynamic(latest_dynamic, dynamic)
                                            THEN Append(@, dynamic) ELSE @]
              /\ UNCHANGED <<latest_dynamic, top_dynamic, dac, car>>
    /\ UNCHANGED pagingFrame

\* DynamicAuthorCommentUpdator.update, lines 122-129, on the next comment
PagingCommentStep ==
    /\ run.stage = "comment" /\ run.outer.page # <<>>
    /\ LET comment == Head(run.outer.page) IN
         IF ~_is_new_comment(dac.latest_comment, comment) THEN Finish(None)
         ELSE IF TooOld(ReplyEventUnixTime(comment)) THEN Finish(None)
         ELSE /\ run' = [run EXCEPT !.outer.page = Tail(@),
                                    !.new = IF IsByAuthor(dac.dynamic, comment)
                                            THEN Append(@, comment) ELSE @]
              /\ UNCHANGED <<latest_dynamic, top_dynamic, dac, car>>
    /\ UNCHANGED pagingFrame

\* CommentAuthorReplyUpdator.update, lines 153-159, on the next comment: a
\* break, or the call of comment_replies(comment)
PagingReplyStep ==
    /\ run.stage = "reply" /\ run.outer.page # <<>>
    /\ LET comment == Head(run.outer.page) IN
         IF ~_is_new_comment(car.latest_comment, comment) THEN Finish(None)
         ELSE IF TooOld(ReplyEventUnixTime(comment)) THEN Finish(None)
         ELSE /\ run' = [run EXCEPT !.stage = "thread", !.outer.page = Tail(@),
                                    !.cur = comment, !.inner = NewGenerator]
              /\ UNCHANGED <<latest_dynamic, top_dynamic, dac, car>>
    /\ UNCHANGED pagingFrame

\* comment_replies(comment) requests its next page (client.py lines 120-133);
\* a failed request ends the generator
PagingThreadRequest ==
    /\ run.stage = "thread"
    /\ run.inner.page = <<>> /\ run.inner.more
    /\ run.inner.pn < PageCap
    /\ \E ok \in BOOLEAN :
         LET k == run.inner.pn + 1
             got == IF ok THEN PageItems(comment_replies(run.cur, 0).replies, k) ELSE <<>>
         IN run' = [run EXCEPT !.inner = [pn |-> k, page |-> got,
                                          more |-> comment_replies_more(ok, got)]]
    /\ UNCHANGED <<latest_dynamic, top_dynamic, dac, car, pagingFrame>>

\* CommentAuthorReplyUpdator.update, lines 159-161, on the next reply
PagingThreadStep ==
    /\ run.stage = "thread" /\ run.inner.page # <<>>
    /\ run' = [run EXCEPT !.inner.page = Tail(@),
                          !.new = @ \o PairsOf(car.dynamic, run.cur, <<Head(run.inner.page)>>)]
    /\ UNCHANGED <<latest_dynamic, top_dynamic, dac, car, pagingFrame>>

\* comment_replies(comment) is exhausted: the outer for-loop goes on
PagingThreadEnds ==
    /\ run.stage = "thread"
    /\ run.inner.page = <<>> /\ ~run.inner.more
    /\ run' = [run EXCEPT !.stage = "reply", !.cur = None, !.inner = NoGenerator]
    /\ UNCHANGED <<latest_dynamic, top_dynamic, dac, car, pagingFrame>>

\* a MemberUpdator, constructed over some earlier feed, enters update()
InitPaging ==
    /\ now = Now0
    /\ feed \in InjSeqs(Dynamics, MaxFeed)
    /\ comments \in InjSeqs({c \in CommentStubs : c.rpid \in {2, 3, 4}}, MaxFeed)
    /\ under_test = "MemberUpdator"
    /\ pc = "idle"
    /\ latest_dynamic = None
    /\ top_dynamic \in {None} \cup {d \in Dynamics : is_top(d)}
    /\ dac = None
    /\ car = None
    /\ delivered_dynamics = {}
    /\ delivered_comments = {}
    /\ dropped = {}
    /\ feeds_sorted = TRUE
    /\ pin_changed = FALSE
    /\ op = "init"
    /\ raised = FALSE
    /\ fetch_failed = FALSE
    /\ collected = <<>>
    /\ handled = <<>>
    /\ rebuilt = FALSE
    /\ taken = 0
    /\ requests = 0
    /\ run = StartStage("get_top")

NextPaging ==
    \/ PagingRequest
    \/ PagingLoopEnds
    \/ PagingGetTopStep
    \/ PagingDynamicStep
    \/ PagingCommentStep
    \/ PagingReplyStep
    \/ PagingThreadRequest
    \/ PagingThreadStep
    \/ PagingThreadEnds

\* the interpreter keeps running the tick: a step that can be taken is taken
SpecPaging == InitPaging /\ [][NextPaging]_vars /\ WF_vars(NextPaging)

\* ======================================================================
\* Properties
\* ======================================================================
UpdateSteps == {"DynamicUpdator.update", "DynamicAuthorCommentUpdator.update",
                "CommentAuthorReplyUpdator.update"}

\* the Dynamics of a feed that are inside the lookback and above the mark
DueDynamics(items, mark) ==
    {d \in Range(items) :
        /\ now - d.pub_ts < Lookback
        /\ (mark = None \/ d.pub_ts > mark.pub_ts)}

NoRepeat(s) == \A i, j \in 1..Len(s) : i # j => s[i] # s[j]

\* C1: over newest-first feeds, one DynamicUpdator.update() hands the handler
\* only items that are inside the lookback and strictly above the mark the
\* tick started with, each at most once and none that an earlier tick handed
\* over; a tick that completes hands over every such item of the feed.
C1_DeliveredExactlyOnce ==
    [][(op' = "DynamicUpdator.update" /\ under_test = "DynamicUpdator" /\ feeds_sorted')
       => /\ Range(handled') \subseteq DueDynamics(feed, latest_dynamic)
          /\ NoRepeat(handled')
          /\ IdsOf(handled') \cap delivered_dynamics = {}
          /\ (~raised' => DueDynamics(feed, latest_dynamic) \subseteq Range(handled'))]_vars

\* a second tick over a longer newest-first feed hands over only the one item
\* above the mark
C1_Witness ==
    /\ op = "DynamicUpdator.update" /\ under_test = "DynamicUpdator"
    /\ feeds_sorted /\ ~raised
    /\ Len(feed) = 3 /\ Len(handled) = 1
    /\ handled[1] = feed[1]
    /\ {feed[2].id_str, feed[3].id_str} \subseteq delivered_dynamics

\* C2 (as claimed): while the pinned post stays the same, a comment that an
\* earlier MemberUpdator.update() tick handed to the handler is not handed
\* over again.
C2_CommentNotifiedOnce ==
    [][(op' = "DynamicAuthorCommentUpdator.update" /\ under_test = "MemberUpdator")
       => RpidsOf(handled') \cap delivered_comments = {}]_vars

NonDecreasing(s) ==
    \A k \in 1..(Len(s) - 1) : EventUnixTime(s[k]) <= EventUnixTime(s[k + 1])

StrictlyIncreasing(s) ==
    \A k \in 1..(Len(s) - 1) : EventUnixTime(s[k]) < EventUnixTime(s[k + 1])

StrictlyNewestFirst(items) ==
    \A i \in 1..(Len(items) - 1) :
        DynamicEventUnixTime(items[i]) > DynamicEventUnixTime(items[i + 1])

CommentsStrictlyNewestFirst(items) ==
    \A i \in 1..(Len(items) - 1) : items[i].ctime > items[i + 1].ctime

\* C3 (as claimed): in one tick of DynamicUpdator.update() or
\* DynamicAuthorCommentUpdator.update() the items handed to the handler are
\* strictly increasing in event time, whatever feed the source returned.
C3_StrictlyIncreasing ==
    op \in {"DynamicUpdator.update", "DynamicAuthorCommentUpdator.update"}
        => StrictlyIncreasing(handled)

\* C3 (amended): the items handed over in one tick are non-decreasing in event
\* time when the feed walked is newest-first, and strictly increasing when
\* no two items of that feed share an event time.
C3_ChronologicalOnNewestFirstFeed ==
    [][/\ op' = "DynamicUpdator.update"
            => /\ IsNewestFirst(feed) => NonDecreasing(handled')
               /\ StrictlyNewestFirst(feed) => StrictlyIncreasing(handled')
       /\ op' = "DynamicAuthorCommentUpdator.update"
            => /\ CommentsNewestFirst(comments) => NonDecreasing(handled')
               /\ CommentsStrictlyNewestFirst(comments) => StrictlyIncreasing(handled')]_vars

\* a newest-first comment feed with two comments of the author at the same
\* second: both are handed over, with equal event times
C3_Witness ==
    /\ op = "DynamicAuthorCommentUpdator.update"
    /\ CommentsNewestFirst(comments)
    /\ Len(handled) = 3
    /\ EventUnixTime(handled[1]) < EventUnixTime(handled[2])
    /\ EventUnixTime(handled[2]) = EventUnixTime(handled[3])

MarkOf(updator) == IF updator = None THEN None ELSE updator.latest_comment

\* the mark stays, or moves to an item with a strictly greater event time
MovesForward(old, new) ==
    \/ new = old
    \/ new # None /\ (old = None \/ EventUnixTime(new) > EventUnixTime(old))

Advanced(old, new) ==
    new # None /\ (old = None \/ EventUnixTime(new) > EventUnixTime(old))

\* C4: the mark of each of the three Updator objects only moves forward: no
\* step sets a mark back to None or moves it to an item with a smaller or equal
\* event time, and an update() that completes having collected an item leaves
\* a mark strictly above the old one (or the old one was None).
C4_MarkMovesForward ==
    [][/\ MovesForward(latest_dynamic, latest_dynamic')
       /\ ~rebuilt' => /\ MovesForward(MarkOf(dac), MarkOf(dac'))
                       /\ MovesForward(MarkOf(car), MarkOf(car'))
       /\ (~raised' /\ collected' # <<>>)
            => /\ op' = "DynamicUpdator.update"
                    => Advanced(latest_dynamic, latest_dynamic')
               /\ op' = "DynamicAuthorCommentUpdator.update"
                    => Advanced(MarkOf(dac), MarkOf(dac'))
               /\ op' = "CommentAuthorReplyUpdator.update"
                    => Advanced(MarkOf(car), MarkOf(car'))]_vars

\* a tick that found the mark set by an earlier tick and moved it on
C4_Witness ==
    /\ op = "DynamicUpdator.update" /\ under_test = "DynamicUpdator"
    /\ ~raised /\ collected # <<>>
    /\ latest_dynamic = collected[1]
    /\ delivered_dynamics \ IdsOf(collected) # {}

\* the walk of DynamicUpdator.update gets as far as item i of the feed
DynamicReached(i) == \A j \in 1..(i - 1) : now - feed[j].pub_ts < Lookback

\* the walk of DynamicAuthorCommentUpdator.update gets as far as comment i
CommentReached(i) ==
    \A j \in 1..(i - 1) :
        /\ now - comments[j].ctime < Lookback
        /\ (dac.latest_comment = None \/ comments[j].ctime > dac.latest_comment.ctime)

\* C5: DynamicUpdator.update() and DynamicAuthorCommentUpdator.update() never
\* hand over an item whose age (now - event time) is 1800 s or more, and a tick
\* that completes hands over every new item of age 1799 s or less that its
\* walk reaches (for the comment Updator: every such comment written by the
\* post's author, the items this Updator tracks).
C5_LookbackBound ==
    [][/\ op' = "DynamicUpdator.update"
            => /\ \A k \in 1..Len(handled') : now - handled'[k].pub_ts < Lookback
               /\ ~raised'
                    => \A i \in 1..Len(feed) :
                          (/\ DynamicReached(i)
                           /\ now - feed[i].pub_ts <= Lookback - 1
                           /\ (latest_dynamic = None \/ feed[i].pub_ts > latest_dynamic.pub_ts))
                          => feed[i] \in Range(handled')
       /\ (op' = "DynamicAuthorCommentUpdator.update" /\ dac # None /\ dac.dynamic # None)
            => /\ \A k \in 1..Len(handled') : now - handled'[k].ctime < Lookback
               /\ ~raised'
                    => \A i \in 1..Len(comments) :
                          (/\ CommentReached(i)
                           /\ now - comments[i].ctime <= Lookback - 1
                           /\ (dac.latest_comment = None
                                 \/ comments[i].ctime > dac.latest_comment.ctime)
                           /\ comments[i].mid = dac.dynamic.mid)
                          => CommentOf(dac.dynamic, comments[i]) \in Range(handled')]_vars

\* a feed with an item aged 29 min 59 s ahead of one aged 30 min: the first is
\* handed over, the second is not
C5_Witness ==
    /\ op = "DynamicUpdator.update" /\ ~raised
    /\ \E d \in Range(handled) : now - d.pub_ts = Lookback - 1
    /\ \E e \in Range(feed) : now - e.pub_ts = Lookback /\ e \notin Range(handled)

\* C6 (as claimed): every (comment, reply) pair CommentAuthorReplyUpdator.update()
\* collects reaches handler.handle() in the same tick.
C6_PairsReachHandler ==
    (op = "CommentAuthorReplyUpdator.update" /\ ~raised)
        => Range(collected) \subseteq Range(handled)

\* C7 (as claimed): when a remote request fails during the walk of an
\* Updator's update(), the update() raises, hands nothing to the handler and
\* leaves the Updator's mark as it was.
C7_FetchFailureFailsTick ==
    [][(op' \in UpdateSteps /\ fetch_failed')
       => /\ raised'
          /\ handled' = <<>>
          /\ latest_dynamic' = latest_dynamic
          /\ MarkOf(dac') = MarkOf(dac)
          /\ MarkOf(car') = MarkOf(car)]_vars

\* the same for DynamicUpdator and DynamicAuthorCommentUpdator alone, whose
\* generators let the failure out
C7_FetchFailureFailsTickOfTwo ==
    [][(op' \in {"DynamicUpdator.update", "DynamicAuthorCommentUpdator.update"}
        /\ fetch_failed')
       => /\ raised'
          /\ handled' = <<>>
          /\ latest_dynamic' = latest_dynamic
          /\ MarkOf(dac') = MarkOf(dac)]_vars

IsStrictPrefix(s, t) ==
    Len(s) < Len(t) /\ s = SubSeq(t, 1, Len(s))

\* the mark of the Updator that is driven directly
DirectMark ==
    IF under_test = "DynamicUpdator" THEN latest_dynamic ELSE MarkOf(dac)

IdentitiesOf(items) ==
    {IF items[i].pytype = "Dynamic" THEN items[i].id_str ELSE items[i].rpid :
        i \in 1..Len(items)}

\* C8: over newest-first feeds (the FeedSource contract), DynamicUpdator.update()
\* and DynamicAuthorCommentUpdator.update() set the mark to the newest
\* collected item also when the replay raises; a replay that raises hands over
\* only the items before the failing call; and no later tick hands over an
\* item that such a replay left out.
C8_MarkAdvancesBeforeReplay ==
    [][(/\ under_test \in {"DynamicUpdator", "DynamicAuthorCommentUpdator"}
        /\ op' \in {"DynamicUpdator.update", "DynamicAuthorCommentUpdator.update"}
        /\ feeds_sorted')
       => /\ (collected' # <<>> /\ ~fetch_failed')
               => /\ DirectMark' = collected'[1]
                  /\ \A k \in 1..Len(collected') :
                        EventUnixTime(collected'[k]) <= EventUnixTime(DirectMark')
          /\ (raised' /\ ~fetch_failed')
               => IsStrictPrefix(handled', Reverse(collected'))
          /\ IdentitiesOf(handled') \cap dropped = {}]_vars

\* a tick after a failed replay: an item that replay left out is in the feed
\* again, and the tick hands over another item
C8_Witness ==
    /\ under_test = "DynamicUpdator" /\ op = "DynamicUpdator.update"
    /\ feeds_sorted /\ ~raised
    /\ handled # <<>>
    /\ \E d \in Range(feed) : d.id_str \in dropped

\* C9 (as claimed): when the pinned post resolved by a tick differs from the
\* one held before, both dependent Updators have an empty mark after the tick.
C9_EmptyMarksAfterTick ==
    (/\ under_test = "MemberUpdator"
     /\ op = "CommentAuthorReplyUpdator.update" /\ pc = "idle"
     /\ pin_changed)
        => MarkOf(dac) = None /\ MarkOf(car) = None

\* the mark is empty or a comment under the given post
MarkUnder(mark, dynamic) ==
    mark = None \/ (dynamic # None /\ mark.oid = dynamic.id_str)

\* C9 (amended): when the pinned post resolved by a tick differs from the one
\* held before, the tick constructs both dependent Updators with an empty mark,
\* bound to the new pinned post; after the tick each mark is empty or a comment
\* under the new pinned post that this tick collected: no mark of the old
\* pinned post carries over.
C9_FreshMarksOnPinChange ==
    [][under_test = "MemberUpdator"
       => /\ (op' = "MemberUpdator.update" /\ ~raised' /\ pin_changed')
               => /\ rebuilt'
                  /\ dac' # None /\ dac'.dynamic = top_dynamic' /\ MarkOf(dac') = None
                  /\ car' # None /\ car'.dynamic = top_dynamic' /\ MarkOf(car') = None
          /\ dac' # None => dac'.dynamic = top_dynamic' /\ MarkUnder(MarkOf(dac'), top_dynamic')
          /\ car' # None => car'.dynamic = top_dynamic' /\ MarkUnder(MarkOf(car'), top_dynamic')]_vars

\* a tick that ended with marks under a post other than the one pinned and
\* marked before
C9_Witness ==
    /\ under_test = "MemberUpdator"
    /\ op = "CommentAuthorReplyUpdator.update" /\ pc = "idle"
    /\ pin_changed
    /\ MarkOf(dac) # None /\ MarkOf(dac).oid = top_dynamic.id_str
    /\ delivered_comments # {}

\* C10 (as claimed): a MemberUpdator.update() tick that resolves the pinned
\* post it already holds leaves the two dependent Updators, objects and marks,
\* as the previous tick left them.
C10_SamePinKeepsUpdators ==
    [][(/\ under_test = "MemberUpdator"
        /\ op = "CommentAuthorReplyUpdator.update" /\ ~raised
        /\ op' = "MemberUpdator.update" /\ ~raised'
        /\ SamePost(top_dynamic', top_dynamic))
       => ~rebuilt' /\ dac' = dac /\ car' = car]_vars

\* C11 (as claimed): when the scan finds no pinned post any more, the
\* MemberUpdator.update() tick goes through its comment and reply steps
\* without an error and hands no comment to the handler.
C11_UnpinnedTickCompletes ==
    (/\ under_test = "MemberUpdator"
     /\ top_dynamic = None
     /\ op \in {"DynamicAuthorCommentUpdator.update", "CommentAuthorReplyUpdator.update"})
        => ~raised /\ handled = <<>>

\* C12 (as claimed): every MemberUpdator.update() tick whose scan for the
\* pinned post returns (a post or None) goes on to DynamicUpdator.update(),
\* whatever the pinned state is.
C12_OwnFeedUpdatorAlwaysRuns ==
    [][(/\ under_test = "MemberUpdator"
        /\ op' = "MemberUpdator.update"
        /\ ~fetch_failed'
        /\ _get_top_dynamic(feed, 1, 0).err = "no")
       => ~raised' /\ pc' = "dynamic"]_vars

\* C13: an update() whose walk collected nothing calls the handler for
\* nothing and leaves every mark as it was; a walk over an empty sequence
\* collects nothing.
C13_EmptyWalkIsNoOp ==
    [][/\ (op' \in UpdateSteps /\ collected' = <<>>)
            => /\ handled' = <<>>
               /\ latest_dynamic' = latest_dynamic
               /\ dac' = dac
               /\ car' = car
       /\ (op' = "DynamicUpdator.update" /\ feed = <<>>) => collected' = <<>>
       /\ (op' \in UpdateSteps \ {"DynamicUpdator.update"} /\ comments = <<>>)
            => collected' = <<>>]_vars

\* the source returns an empty sequence to an Updator whose mark an earlier
\* tick set: one request, nothing handled, the mark still set
C13_Witness ==
    /\ under_test = "DynamicUpdator" /\ op = "DynamicUpdator.update"
    /\ feed = <<>> /\ ~raised
    /\ requests = 1 /\ handled = <<>>
    /\ latest_dynamic # None

\* C14: DynamicAuthorCommentUpdator.update() collects and hands over only
\* comments whose mid is the mid of the post it is bound to, and its mark is
\* never a comment by another member.
C14_OnlyAuthorComments ==
    [][(op' = "DynamicAuthorCommentUpdator.update" /\ dac # None /\ dac.dynamic # None)
       => /\ \A k \in 1..Len(collected') : collected'[k].mid = DynamicMid(dac.dynamic)
          /\ \A k \in 1..Len(handled') : handled'[k].mid = DynamicMid(dac.dynamic)
          /\ MarkOf(dac') # None => MarkOf(dac').mid = DynamicMid(dac.dynamic)]_vars

\* the newest comment of the walk is by another member: the walk passes it,
\* hands over the author's comment behind it and marks that one
C14_Witness ==
    /\ op = "DynamicAuthorCommentUpdator.update" /\ ~raised
    /\ Len(comments) >= 2 /\ taken = Len(comments)
    /\ comments[1].mid = OtherMid
    /\ Len(handled) = 1
    /\ MarkOf(dac) = handled[1]
    /\ handled[1].rpid = comments[2].rpid

\* C15 (as claimed): in every Updator the walk stops at the first item that
\* is not new: no item behind it is taken from the source.
C15_NoveltyShortCircuits ==
    [][/\ op' = "DynamicUpdator.update"
            => \A i \in 1..Len(feed) :
                  ~_is_new_dynamic(latest_dynamic, feed[i]) => taken' <= i
       /\ (op' = "DynamicAuthorCommentUpdator.update" /\ dac # None /\ dac.dynamic # None)
            => \A i \in 1..Len(comments) :
                  ~_is_new_comment(dac.latest_comment, CommentOf(dac.dynamic, comments[i]))
                      => taken' <= i
       /\ (op' = "CommentAuthorReplyUpdator.update" /\ car # None /\ car.dynamic # None)
            => \A i \in 1..Len(comments) :
                  ~_is_new_comment(car.latest_comment, CommentOf(car.dynamic, comments[i]))
                      => taken' <= i]_vars

\* C16 (as claimed): a request for the replies to a comment that fails during
\* CommentAuthorReplyUpdator.update() makes that update() raise.
C16_ReplyFetchFailureRaises ==
    (op = "CommentAuthorReplyUpdator.update" /\ fetch_failed) => raised

\* the walk of DynamicUpdator.update ended at a break, on the item taken last
DynamicWalkBroke == taken' >= 1 /\ TooOld(DynamicEventUnixTime(feed[taken']))

\* the walk of DynamicAuthorCommentUpdator.update ended at a break
CommentWalkBroke ==
    /\ taken' >= 1
    /\ LET comment == CommentOf(dac.dynamic, comments[taken']) IN
         ~_is_new_comment(dac.latest_comment, comment) \/ TooOld(ReplyEventUnixTime(comment))

\* C17: member_dynamics() and dynamic_replies() request page k+1 only after
\* the walk has taken every item of page k and asks for one more; a walk that
\* stops at an item has requested the pages up to that item's page and no
\* page behind it.
C17_PaginationStopsWithWalk ==
    [][/\ op' = "DynamicUpdator.update"
            => /\ requests' >= 2 => taken' >= ItemsOnPages(feed, requests' - 1)
               /\ DynamicWalkBroke => requests' = PageOf(taken')
       /\ (op' = "DynamicAuthorCommentUpdator.update" /\ dac # None /\ dac.dynamic # None)
            => /\ requests' >= 2 => taken' >= ItemsOnPages(comments, requests' - 1)
               /\ CommentWalkBroke => requests' = PageOf(taken')]_vars

\* a feed of two pages whose first item ends the walk: one request
C17_Witness ==
    /\ op = "DynamicUpdator.update" /\ ~raised
    /\ PagesOf(Len(feed)) = 2
    /\ taken = 1 /\ requests = 1

\* C19: when the first item member_dynamics() yields is 30 minutes old or
\* older, DynamicUpdator.update() takes that one item, collects and hands
\* over nothing and leaves the mark as it was, whatever follows in the feed.
C19_OldFirstItemEndsWalk ==
    [][(/\ op' = "DynamicUpdator.update"
        /\ feed # <<>>
        /\ TooOld(DynamicEventUnixTime(feed[1])))
       => /\ collected' = <<>>
          /\ handled' = <<>>
          /\ latest_dynamic' = latest_dynamic
          /\ ~fetch_failed' => (~raised' /\ taken' = 1)]_vars

\* an old pinned post is listed ahead of a post that is inside the lookback
\* and above the mark: nothing is handed over
C19_Witness ==
    /\ op = "DynamicUpdator.update" /\ ~raised
    /\ Len(feed) >= 2
    /\ is_top(feed[1]) /\ TooOld(DynamicEventUnixTime(feed[1]))
    /\ DueDynamics(feed, latest_dynamic) # {}
    /\ handled = <<>>

\* C18: with finite listings on the remote, a MemberUpdator.update() tick
\* run request by request and item by item ends, by returning or by raising;
\* and each of the loops it enters (the scan for the pinned post and the
\* update() of each Updator) is left again.
C18_TickTerminates ==
    /\ <>(run.stage \in {"done", "raised"})
    /\ \A stage \in OuterStages \cup {"thread"} :
          (run.stage = stage) ~> (run.stage # stage)

\* a tick that returned after its reply Updator walked a second page of
\* comments
C18_Witness ==
    /\ run.stage = "done"
    /\ Len(comments) > PageLen
    /\ car.latest_comment # None
    /\ latest_dynamic # None

====
